---- MODULE Spec2Model ----
(***************************************************************************)
(* Model of smart_search_tool.py: the UsageTracker (per-provider usage     *)
(* counters persisted in .search_usage_cache.json) and the SmartSearchTool *)
(* fallback chain over the search providers.                               *)
(***************************************************************************)
EXTENDS Integers, Sequences, FiniteSets, TLC

\* ------------------------------------------------------------------------
\* Bounds of the model
\* ------------------------------------------------------------------------
\* Days the wall clock can advance to (days are numbered 0..MaxDay).
MaxDay == 2
\* Days per calendar month of the modelled calendar.
DaysPerMonth == 2
\* A usage file found at start-up holds each count at the quota or this far
\* below it.
StartGaps == {0, 1}
\* Operations (searches, direct tracker calls) started in one behaviour.
MaxOps == 2
\* Calls answered False that a behaviour of SpecQuota or SpecShared makes
\* for one service.
MaxDenied == 2
\* Times the tracker is constructed anew in one behaviour of SpecQuota.
MaxRestarts == 2
\* Results a provider can return for one query.
MaxResults == 2
\* In SpecQuota: calls made to the providers other than the one under test.
MaxOther == 1
\* In SpecRun: usable entries a backend can yield for one query.
MaxEntries == 6
\* Reports added to the history in one behaviour.
MaxReports == 3
\* In SpecHistory: claims a report can count.
MaxClaims == 2

\* ------------------------------------------------------------------------
\* Program constants
\* ------------------------------------------------------------------------
SerperLimit == 2500
BraveLimit == 66
SearxngLimit == 100
\* Reports get_history_summary lists.
SummaryTop == 10
\* Entries SearXNGProvider.search takes from an answer.
SearxngTop == 10
\* Entries GoogleScraperProvider.search takes from a page.
ScraperTop == 5
\* Results SmartSearchTool.run lists.
RunTop == 5
\* max_retries of SearXNGProvider.search.
max_retries == 3
\* SearXNGProvider.PUBLIC_INSTANCES
PUBLIC_INSTANCES ==
    <<"https://searx.be", "https://searx.work", "https://search.bus-hit.me",
      "https://search.sapti.me", "https://searx.tiekoetter.com">>
\* What an instance can answer other than a 200 response with a JSON body:
\* another status, no answer (timeout, connection error), or a 200 response
\* whose body response.json() cannot parse.
FailedResponses == {"non200", "exception", "200_unparsable"}

Services == {"serper", "brave", "searxng"}
\* A name check_and_update has no branch for.
Unregistered == "unregistered"
\* The usage file when .search_usage_cache.json does not exist.
NoFile == [exists |-> FALSE, valid |-> TRUE,
           content |-> [s \in Services |-> [count |-> 0, period |-> -1]]]
\* The usage file when it exists and json.load cannot read a document from it.
Garbled == [exists |-> TRUE, valid |-> FALSE, content |-> NoFile.content]
Null == "None"
\* fact_check_history.json when it does not exist.
NoHistoryFile == [exists |-> FALSE, content |-> <<>>]
Queries == {"Tesla employees"}
\* A SearXNG instance of one's own, given as searxng_instance.
CustomInstance == "http://localhost:8888"
\* SearXNGProvider.__init__: instance_url or PUBLIC_INSTANCES[0]
SearXNGProvider_instance_url(arg) ==
    IF arg = Null THEN PUBLIC_INSTANCES[1] ELSE arg

VARIABLES
    now,            \* wall clock: the current day number
    cache_file,     \* content of .search_usage_cache.json, NoFile or Garbled
    writable,       \* whether open(cache_file, 'w') succeeds
    usage_data,     \* UsageTracker.usage_data of the tool's tracker
    serper_api_key, \* whether a Serper key is configured
    brave_api_key,  \* whether a Brave key is configured
    pc,             \* position of the search call in progress
    idx,            \* index into self.providers of the provider being tried
    query,          \* the query of the search call in progress
    results,        \* local `results` of search
    used_provider,  \* local `used_provider` of search
    asked,          \* providers whose is_available was called in this search
    searched,       \* providers whose search was called in this search
    outcome,        \* what the last search call returned
    start_data,     \* usage_data as it was when this search was called
    last,           \* the last completed tracker operation and its result
    status,         \* what the last get_status call returned
    ops,            \* operations started so far
    approved,       \* per service: calls answered True in the record's period
    denied,         \* per service: calls answered False in the record's period
    focus,          \* in SpecQuota: the provider under test
    instance,       \* how many times the tracker was constructed anew
    base,           \* per service: the count the tracker loaded at the start
    peer_data,      \* usage_data of the tracker of a second, concurrent tool
    peer_approved,  \* per service: calls the second tracker answered True
    fact_check_history, \* the module's list of FactCheckReport
    history_file,   \* content of fact_check_history.json, or NoHistoryFile
    added,          \* the reports add_to_history was called with, in order
    summary,        \* what the last get_history_summary call returned
    export_result,  \* the last export_report_to_markdown_by_id call and its result
    peer_history,   \* a second process on fact_check_history.json: its list
    current_instance_idx, \* SearXNGProvider.current_instance_idx
    instance_url,   \* SearXNGProvider.instance_url
    attempt,        \* attempts SearXNGProvider.search has made in the call in progress
    attempts,       \* the requests of SearXNGProvider.search in this search call
    flaky,          \* whether a SearXNG instance can fail to answer a request
    searxng_instance \* the searxng_instance argument of SmartSearchTool, or Null

vars == <<now, cache_file, writable, usage_data, serper_api_key, brave_api_key,
          pc, idx, query, results, used_provider, asked, searched, outcome,
          start_data, last, status, ops, approved, denied, focus, instance, base,
          peer_data, peer_approved, fact_check_history, history_file, added,
          summary, export_result, peer_history, current_instance_idx,
          instance_url, attempt, attempts, flaky, searxng_instance>>

searchVars == <<pc, idx, query, results, used_provider, asked, searched, outcome,
                start_data>>
configVars == <<serper_api_key, brave_api_key, focus, searxng_instance>>
sideVars == <<instance, base, peer_data, peer_approved>>
historyVars == <<fact_check_history, history_file, added, summary, export_result,
                 peer_history>>
searxVars == <<current_instance_idx, instance_url, attempt, attempts, flaky>>
toolVars == <<now, cache_file, writable, usage_data, searchVars, configVars, sideVars,
              searxVars, last, status, ops, approved, denied>>

\* ------------------------------------------------------------------------
\* UsageTracker
\* ------------------------------------------------------------------------
\* datetime.now().strftime("%Y-%m"): one key per calendar month.
current_month(t) == t \div DaysPerMonth
\* datetime.now().strftime("%Y-%m-%d"): one key per calendar day.
current_day(t) == t

\* The period key a service's record is compared with.
PeriodKey(service, t) ==
    IF service = "serper" THEN current_month(t) ELSE current_day(t)

\* The limit check_and_update compares a service's count with.
Quota(service) ==
    CASE service = "serper" -> SerperLimit
      [] service = "brave" -> BraveLimit
      [] service = "searxng" -> SearxngLimit

load_usage_Fresh(file, t) ==
    [s \in Services |-> [count |-> 0, period |-> PeriodKey(s, t)]]
\* Whether json.load(f) in load_usage raises: the file exists and does not
\* hold a JSON document.
load_usage_raises(file) == file.exists /\ ~file.valid

\* load_usage when it does not raise.
load_usage(file, t) ==
    IF file.exists
    THEN file.content
    ELSE [s \in Services |-> [count |-> 0, period |-> PeriodKey(s, t)]]

\* json.dump(self.usage_data, f): the whole record set replaces the file.
save_usage_OnlyCounted(data) ==
    [exists |-> TRUE, valid |-> TRUE,
     content |-> [s \in Services |->
                    IF data[s].count > 0 THEN data[s] ELSE NoFile.content[s]]]
save_usage(data) == [exists |-> TRUE, valid |-> TRUE, content |-> data]

\* The first step of a branch of check_and_update: the reset of a stale record.
Rollover_AllStale(data, service, t) ==
    [s \in Services |->
        IF data[s].period # PeriodKey(s, t)
        THEN [count |-> 0, period |-> PeriodKey(s, t)]
        ELSE data[s]]
Rollover_KeepCount(data, service, t) ==
    [data EXCEPT ![service].period = PeriodKey(service, t)]
Rollover(data, service, t) ==
    IF data[service].period # PeriodKey(service, t)
    THEN [data EXCEPT ![service] = [count |-> 0, period |-> PeriodKey(service, t)]]
    ELSE data

check_and_update_WrapAtQuota(data, service, t) ==
    IF service \in Services
    THEN LET rolled == Rollover(data, service, t) IN
         [data |-> [rolled EXCEPT ![service].count =
                       IF @ >= Quota(service) THEN 1 ELSE @ + 1],
          save |-> TRUE, ret |-> "True"]
    ELSE [data |-> data, save |-> TRUE, ret |-> "True"]
check_and_update_OffByOne(data, service, t) ==
    IF service \in Services
    THEN LET rolled == Rollover(data, service, t) IN
         IF rolled[service].count > Quota(service)
         THEN [data |-> rolled, save |-> FALSE, ret |-> "False"]
         ELSE [data |-> [rolled EXCEPT ![service].count = @ + 1],
               save |-> TRUE, ret |-> "True"]
    ELSE [data |-> data, save |-> TRUE, ret |-> "True"]
check_and_update_IncrementFirst(data, service, t) ==
    LET bumped == [data EXCEPT ![service] =
                     IF @.period # PeriodKey(service, t)
                     THEN [count |-> 1, period |-> PeriodKey(service, t)]
                     ELSE [count |-> @.count + 1, period |-> @.period]] IN
    IF service \notin Services
    THEN [data |-> data, save |-> TRUE, ret |-> "True"]
    ELSE IF bumped[service].count > Quota(service)
    THEN [data |-> bumped, save |-> FALSE, ret |-> "False"]
    ELSE [data |-> bumped, save |-> TRUE, ret |-> "True"]
check_and_update_NoCharge(data, service, t) ==
    IF service \in Services
    THEN LET rolled == Rollover(data, service, t) IN
         IF rolled[service].count >= Quota(service)
         THEN [data |-> rolled, save |-> FALSE, ret |-> "False"]
         ELSE [data |-> rolled, save |-> TRUE, ret |-> "True"]
    ELSE [data |-> data, save |-> TRUE, ret |-> "True"]
\* check_and_update up to its save_usage call: the new usage_data, whether the
\* call reaches save_usage, and what it returns when save_usage succeeds.
check_and_update(data, service, t) ==
    IF service \in Services
    THEN LET rolled == Rollover(data, service, t) IN
         IF rolled[service].count >= Quota(service)
         THEN [data |-> rolled, save |-> FALSE, ret |-> "False"]
         ELSE [data |-> [rolled EXCEPT ![service].count = @ + 1],
               save |-> TRUE, ret |-> "True"]
    ELSE [data |-> data, save |-> TRUE, ret |-> "True"]

Max(a, b) == IF a >= b THEN a ELSE b

get_status_CopyPaste(data) ==
    [s \in Services |->
        [used |-> data[s].count,
         remaining |-> Max(0, SerperLimit - data[s].count),
         period |-> data[s].period]]
get_status_Rolled(data) ==
    [s \in Services |->
        [used |-> Rollover_KeepCount(data, s, now)[s].count,
         remaining |-> Max(0, Quota(s) - data[s].count),
         period |-> PeriodKey(s, now)]]
get_status(data) ==
    [s \in Services |->
        [used |-> data[s].count,
         remaining |-> Max(0, Quota(s) - data[s].count),
         period |-> data[s].period]]

\* ------------------------------------------------------------------------
\* Report history (fact-checker.py, web_ui.py)
\* ------------------------------------------------------------------------
\* The reports a fact check can produce, by the two counts the summary adds up.
Reports ==
    UNION {{[class |-> "FactCheckReport", total_claims |-> t, false_claims |-> f] :
               f \in 0..t} : t \in 0..MaxClaims}

\* report.model_dump(): the dict of the report's fields.
model_dump(report) ==
    [total_claims |-> report.total_claims, false_claims |-> report.false_claims]

\* FactCheckReport.model_validate(item): the report of a dict.
model_validate(item) ==
    [class |-> "FactCheckReport", total_claims |-> item.total_claims,
     false_claims |-> item.false_claims]

\* load_history on a file json.load can read: [] when there is no file, else
\* the reports of the dicts it holds.
load_history(file) ==
    IF ~file.exists
    THEN <<>>
    ELSE [i \in 1..Len(file.content) |-> model_validate(file.content[i])]

\* save_history on a file that can be written: the dumps of the whole list
\* replace the file.
save_history_LastOnly(history) ==
    [exists |-> TRUE,
     content |-> IF history = <<>> THEN <<>>
                 ELSE <<model_dump(history[Len(history)])>>]
save_history(history) ==
    [exists |-> TRUE,
     content |-> [i \in 1..Len(history) |-> model_dump(history[i])]]

\* `0 <= report_id < len(fact_check_history)`
ValidId_NoLowerBound(report_id, length) == report_id < length
ValidId(report_id, length) == 0 <= report_id /\ report_id < length

\* history[report_id] as Python indexes a list: from the end for a negative
\* index, IndexError outside the list.
IndexError == [class |-> "IndexError", total_claims |-> -1, false_claims |-> -1]
PyItem(history, report_id) ==
    CASE 0 <= report_id /\ report_id < Len(history) -> history[report_id + 1]
      [] report_id < 0 /\ -report_id <= Len(history) ->
            history[Len(history) + report_id + 1]
      [] OTHER -> IndexError

\* sum(...) over a list of numbers.
RECURSIVE Sum(_)
Sum(numbers) == IF numbers = <<>> THEN 0 ELSE Head(numbers) + Sum(Tail(numbers))

\* history[-k:]
LastN(history, k) ==
    SubSeq(history, Max(1, Len(history) - k + 1), Len(history))

NoSummary == [text |-> Null, lines |-> -1, reports |-> -1, claims |-> -1,
              false |-> -1]
NoExport == [report_id |-> -1, can_write |-> FALSE, status |-> Null,
             message |-> Null]

\* The module as imported: fact_check_history = load_history().
\* No second process has imported the module.
NoPeer == [running |-> FALSE, fact_check_history |-> <<>>, added |-> 0]

HistoryInit ==
    /\ history_file = NoHistoryFile
    /\ fact_check_history = load_history(history_file)
    /\ added = <<>>
    /\ summary = NoSummary
    /\ export_result = NoExport
    /\ peer_history = NoPeer

\* add_to_history(report): append, then save_history of the whole list.
AddToHistory(report) ==
    /\ Len(added) + peer_history.added < MaxReports
    /\ fact_check_history' = Append(fact_check_history, report)
    /\ history_file' = save_history(fact_check_history')
    /\ added' = Append(added, report)
    /\ summary' = NoSummary
    /\ export_result' = NoExport
    /\ UNCHANGED <<peer_history, toolVars>>

\* FactCheckerUI.get_history_summary(): the list is reloaded from the file,
\* then the last 10 reports are listed and the totals taken over all of them.
GetHistorySummary ==
    /\ summary = NoSummary
    /\ fact_check_history' = load_history(history_file)
    /\ summary' =
         IF fact_check_history' = <<>>
         THEN [text |-> "Nog geen fact checks uitgevoerd", lines |-> 0,
               reports |-> -1, claims |-> -1, false |-> -1]
         ELSE [text |-> "Fact Check Geschiedenis",
               lines |-> Len(LastN(fact_check_history', SummaryTop)),
               reports |-> Len(fact_check_history'),
               claims |-> Sum([i \in 1..Len(fact_check_history') |->
                                  fact_check_history'[i].total_claims]),
               false |-> Sum([i \in 1..Len(fact_check_history') |->
                                 fact_check_history'[i].false_claims])]
    /\ export_result' = NoExport
    /\ UNCHANGED <<history_file, added, peer_history, toolVars>>

\* export_report_to_markdown_by_id(report_id): export_to_markdown writes the
\* file (can_write) or raises, and every exception becomes an error status.
ExportById(report_id, can_write) ==
    /\ export_result' =
         IF ValidId(report_id, Len(fact_check_history))
         THEN IF PyItem(fact_check_history, report_id) # IndexError /\ can_write
              THEN [report_id |-> report_id, can_write |-> can_write,
                    status |-> "success",
                    message |-> "Report successfully exported to"]
              ELSE [report_id |-> report_id, can_write |-> can_write,
                    status |-> "error", message |-> "Failed to export report"]
         ELSE [report_id |-> report_id, can_write |-> can_write,
               status |-> "error", message |-> "not found"]
    /\ export_result' # export_result
    /\ summary' = NoSummary
    /\ UNCHANGED <<fact_check_history, history_file, added, peer_history, toolVars>>

\* A second process (a command-line run next to the web UI) imports the
\* module: its fact_check_history = load_history().
PeerImport ==
    /\ ~peer_history.running
    /\ peer_history' = [running |-> TRUE,
                        fact_check_history |-> load_history(history_file),
                        added |-> 0]
    /\ UNCHANGED <<fact_check_history, history_file, added, summary, export_result,
                   toolVars>>

\* add_to_history(report) in the second process: append to its own list, then
\* save_history of that list.
PeerAddToHistory(report) ==
    /\ peer_history.running
    /\ Len(added) + peer_history.added < MaxReports
    /\ peer_history' = [running |-> TRUE,
                        fact_check_history |->
                            Append(peer_history.fact_check_history, report),
                        added |-> peer_history.added + 1]
    /\ history_file' = save_history(peer_history'.fact_check_history)
    /\ UNCHANGED <<fact_check_history, added, summary, export_result, toolVars>>

\* ------------------------------------------------------------------------
\* State after construction
\* ------------------------------------------------------------------------
NoStatus == [s \in Services |-> [used |-> -1, remaining |-> -1, period |-> -1]]
NoOutcome == [query |-> Null, provider |-> Null, results |-> <<>>,
              usage_status |-> NoStatus, timestamp |-> -1]
NoRecord == [count |-> -1, period |-> -1]
NoLast == [op |-> "none", service |-> Null, result |-> Null, before |-> NoRecord,
           at |-> -1]

\* Records an earlier run of the same day can have left for a service.
InitRecords(s) ==
    {[count |-> Quota(s) - h, period |-> PeriodKey(s, 0)] : h \in StartGaps}

\* Usage files found at start-up: none, or one left by an earlier run.
InitFiles ==
    {NoFile} \cup
    {save_usage([s \in Services |->
                    CASE s = "serper" -> a [] s = "brave" -> b [] s = "searxng" -> c]) :
        a \in InitRecords("serper"), b \in InitRecords("brave"),
        c \in InitRecords("searxng")}

\* SmartSearchTool.__init__ with UsageTracker.__init__: the tracker loads the
\* usage file, the provider list follows from the configured keys.
InitCommon ==
    /\ now = 0
    /\ writable = TRUE
    /\ usage_data = load_usage(cache_file, now)
    /\ pc = "idle"
    /\ idx = 0
    /\ query = Null
    /\ results = <<>>
    /\ used_provider = Null
    /\ asked = <<>>
    /\ searched = <<>>
    /\ outcome = NoOutcome
    /\ start_data = NoFile.content
    /\ last = NoLast
    /\ status = NoStatus
    /\ ops = 0
    /\ approved = [s \in Services |-> 0]
    /\ denied = [s \in Services |-> 0]
    /\ instance = 0
    /\ base = [s \in Services |-> usage_data[s].count]
    /\ peer_data = NoFile.content
    /\ peer_approved = [s \in Services |-> 0]
    /\ HistoryInit
    /\ current_instance_idx = 0
    /\ instance_url = SearXNGProvider_instance_url(searxng_instance)
    /\ attempt = 0
    /\ attempts = <<>>

Init ==
    /\ cache_file \in InitFiles
    /\ serper_api_key \in BOOLEAN
    /\ brave_api_key \in BOOLEAN
    /\ focus = Null
    /\ flaky = FALSE
    /\ searxng_instance = Null
    /\ InitCommon

\* ------------------------------------------------------------------------
\* Providers
\* ------------------------------------------------------------------------
\* self.providers as SmartSearchTool.__init__ assembles it.
providers_BraveBeforeSearxng ==
    (IF serper_api_key THEN <<"SerperProvider">> ELSE <<>>)
    \o (IF brave_api_key THEN <<"BraveProvider">> ELSE <<>>)
    \o <<"SearXNGProvider">>
    \o <<"GoogleScraperProvider">>
providers ==
    (IF serper_api_key THEN <<"SerperProvider">> ELSE <<>>)
    \o <<"SearXNGProvider">>
    \o (IF brave_api_key THEN <<"BraveProvider">> ELSE <<>>)
    \o <<"GoogleScraperProvider">>

\* The tracker name a provider passes to check_and_update, and the "source"
\* it stamps on its results.
ServiceOf(provider) ==
    CASE provider = "SerperProvider" -> "serper"
      [] provider = "SearXNGProvider" -> "searxng"
      [] provider = "BraveProvider" -> "brave"
      [] provider = "GoogleScraperProvider" -> "google_scraper"

\* Whether the provider holds a (truthy) api_key; SearXNG and the scraper
\* need none.
HasKey(provider) ==
    CASE provider = "SerperProvider" -> serper_api_key
      [] provider = "BraveProvider" -> brave_api_key
      [] OTHER -> TRUE

\* Whether is_available of the provider goes through the tracker.
UsesTracker(provider) == provider # "GoogleScraperProvider"

Min(a, b) == IF a <= b THEN a ELSE b

\* seq[:k]
Take(seq, k) == SubSeq(seq, 1, Min(k, Len(seq)))

\* The list a provider's search returns when the backend yields n entries:
\* result records in the backend's order, each stamped with the source;
\* SearXNG takes the first 10 of them, the scraper the first 5.
ProviderResults(provider, n) ==
    LET entries == [i \in 1..n |-> [source |-> ServiceOf(provider), rank |-> i]] IN
    CASE provider = "SearXNGProvider" -> Take(entries, SearxngTop)
      [] provider = "GoogleScraperProvider" -> Take(entries, ScraperTop)
      [] OTHER -> entries

\* ------------------------------------------------------------------------
\* Tracker operations
\* ------------------------------------------------------------------------
\* The calls answered ret for a service within the period of its record,
\* after a call that returned r.
Tally(count, r, service, ret) ==
    IF service \in Services
    THEN [count EXCEPT ![service] =
            (IF usage_data[service].period # r.data[service].period THEN 0 ELSE @)
            + (IF r.ret = ret THEN 1 ELSE 0)]
    ELSE count

\* What `last` records of a check_and_update call.
Called(service, result) ==
    [op |-> "check_and_update", service |-> service, result |-> result,
     before |-> IF service \in Services THEN usage_data[service] ELSE NoRecord,
     at |-> now]

\* One call of check_and_update(service) on the tracker: the record update,
\* then save_usage, which raises when the file cannot be opened for writing.
TrackerCall(service) ==
    LET r == check_and_update(usage_data, service, now) IN
    /\ usage_data' = r.data
    /\ IF r.save /\ ~writable
       THEN /\ cache_file' = cache_file
            /\ last' = Called(service, "raised")
            /\ UNCHANGED <<approved, denied>>
       ELSE /\ cache_file' = IF r.save THEN save_usage(r.data) ELSE cache_file
            /\ last' = Called(service, r.ret)
            /\ approved' = Tally(approved, r, service, "True")
            /\ denied' = Tally(denied, r, service, "False")
    /\ status' = NoStatus

Idle == pc \in {"idle", "done", "raised"}

\* No search call is in progress and the last one's frame is gone.
NoSearch ==
    /\ pc' = "idle"
    /\ idx' = 0
    /\ query' = Null
    /\ results' = <<>>
    /\ used_provider' = Null
    /\ asked' = <<>>
    /\ searched' = <<>>
    /\ outcome' = NoOutcome
    /\ start_data' = NoFile.content
    /\ attempt' = 0
    /\ attempts' = <<>>

\* A direct call of tracker.check_and_update(service).
CheckAndUpdate(service) ==
    /\ Idle
    /\ ops < MaxOps
    /\ ops' = ops + 1
    /\ TrackerCall(service)
    /\ NoSearch
    /\ UNCHANGED <<now, writable, configVars, historyVars, sideVars,
                   current_instance_idx, instance_url, flaky>>

\* A call of tracker.get_status().
GetStatus ==
    /\ Idle
    /\ ops < MaxOps
    /\ ops' = ops + 1
    /\ status' = get_status(usage_data)
    /\ last' = [op |-> "get_status", service |-> Null, result |-> Null,
                before |-> NoRecord, at |-> now]
    /\ NoSearch
    /\ UNCHANGED <<now, cache_file, writable, usage_data, configVars, historyVars, sideVars,
                   current_instance_idx, instance_url, flaky,
                   approved, denied>>

\* The wall clock reaches the next day.
Tick ==
    /\ now < MaxDay
    /\ now' = now + 1
    /\ UNCHANGED <<cache_file, writable, usage_data, searchVars, configVars, historyVars, searxVars, sideVars,
                   last, status, ops, approved, denied>>

\* The process ends and a new UsageTracker is constructed on the same file;
\* load_usage has no handler for what json.load raises, and then no tracker
\* comes to be.
Restart ==
    /\ instance < MaxRestarts
    /\ instance' = instance + 1
    /\ IF load_usage_raises(cache_file)
       THEN /\ usage_data' = usage_data
            /\ last' = [op |-> "restart", service |-> Null, result |-> "raised",
                        before |-> NoRecord, at |-> now]
       ELSE /\ usage_data' = load_usage(cache_file, now)
            /\ last' = [op |-> "restart", service |-> Null, result |-> Null,
                        before |-> NoRecord, at |-> now]
    /\ status' = NoStatus
    /\ current_instance_idx' = 0
    /\ instance_url' = SearXNGProvider_instance_url(searxng_instance)
    /\ UNCHANGED <<now, cache_file, writable, searchVars, configVars, historyVars, base,
                   attempt, attempts, flaky,
                   peer_data, peer_approved, ops, approved, denied>>

\* ------------------------------------------------------------------------
\* SmartSearchTool.search, one step per call it makes
\* ------------------------------------------------------------------------
\* The top of the for loop: the next provider, or the return statement.
LoopTo_NoEnd(i) == "is_available"
LoopTo_SkipLast(i) == IF i >= Len(providers) THEN "return" ELSE "is_available"
LoopTo(i) == IF i > Len(providers) THEN "return" ELSE "is_available"

\* search(query) is called: results = [], used_provider = None.
StartSearch(q) ==
    /\ Idle
    /\ ops < MaxOps
    /\ ops' = ops + 1
    /\ pc' = LoopTo(1)
    /\ idx' = 1
    /\ query' = q
    /\ results' = <<>>
    /\ used_provider' = Null
    /\ asked' = <<>>
    /\ searched' = <<>>
    /\ outcome' = NoOutcome
    /\ start_data' = usage_data
    /\ attempt' = 0
    /\ attempts' = <<>>
    /\ last' = NoLast
    /\ status' = NoStatus
    /\ UNCHANGED <<now, cache_file, writable, usage_data, configVars, historyVars, sideVars,
                   current_instance_idx, instance_url, flaky, approved, denied>>

\* provider.is_available() of the provider at idx.
IsAvailable ==
    /\ pc = "is_available"
    /\ LET provider == providers[idx] IN
       /\ IF ~UsesTracker(provider)
          THEN \* GoogleScraperProvider: return True
               /\ asked' = Append(asked, [provider |-> provider, available |-> "True"])
               /\ pc' = "search"
               /\ idx' = idx
               /\ UNCHANGED <<cache_file, usage_data, last, status, approved, denied>>
          ELSE IF ~HasKey(provider)
          THEN \* if not self.api_key: return False
               /\ asked' = Append(asked, [provider |-> provider, available |-> "False"])
               /\ pc' = LoopTo(idx + 1)
               /\ idx' = idx + 1
               /\ UNCHANGED <<cache_file, usage_data, last, status, approved, denied>>
          ELSE \* return self.tracker.check_and_update(...)
               /\ TrackerCall(ServiceOf(provider))
               /\ asked' = Append(asked, [provider |-> provider,
                                          available |-> last'.result])
               /\ pc' = CASE last'.result = "True" -> "search"
                          [] last'.result = "False" -> LoopTo(idx + 1)
                          [] last'.result = "raised" -> "raised"
               /\ idx' = IF last'.result = "False" THEN idx + 1 ELSE idx
    /\ UNCHANGED <<now, writable, configVars, historyVars, searxVars, sideVars, query, results, used_provider,
                   searched, outcome, start_data, ops>>

\* `if results:` on the list a provider returned.
Truthy_Always(found) == TRUE
Truthy_Never(found) == FALSE
Truthy(found) == Len(found) > 0

\* self.current_instance_idx after rotate_instance.
rotate_instance_StopAtLast(i) ==
    IF i + 1 >= Len(PUBLIC_INSTANCES) THEN i ELSE i + 1
rotate_instance_Stay(i) == i
rotate_instance(i) == (i + 1) % Len(PUBLIC_INSTANCES)

\* An entry of `attempts`: the instance a request went to and its answer.
Request(response) ==
    [idx |-> current_instance_idx, url |-> instance_url, response |-> response]

\* provider.search(query) of the provider at idx returns: the backend answers
\* with n usable entries (for the providers with a single request: none on a
\* non-200 response, an exception or an empty answer; for SearXNG: a 200
\* response with a JSON body, at whichever attempt).
ProviderSearch(n) ==
    /\ pc = "search"
    /\ LET provider == providers[idx]
           found == ProviderResults(provider, n) IN
       /\ searched' = Append(searched, [provider |-> provider, n |-> Len(found)])
       /\ results' = found
       /\ attempts' = IF provider = "SearXNGProvider"
                      THEN Append(attempts, Request("200"))
                      ELSE attempts
       /\ attempt' = 0
       /\ IF Truthy(found)
          THEN /\ used_provider' = provider
               /\ pc' = "return"
               /\ idx' = idx
          ELSE /\ used_provider' = used_provider
               /\ pc' = LoopTo(idx + 1)
               /\ idx' = idx + 1
    /\ UNCHANGED <<now, cache_file, writable, usage_data, configVars, historyVars, sideVars, query,
                   asked, outcome, start_data, last, status, ops, approved, denied,
                   current_instance_idx, instance_url, flaky>>

SearxngAttemptFails_NoCount(response) ==
    /\ pc = "search"
    /\ providers[idx] = "SearXNGProvider"
    /\ flaky
    /\ current_instance_idx' = rotate_instance(current_instance_idx)
    /\ instance_url' = PUBLIC_INSTANCES[current_instance_idx' + 1]
    /\ UNCHANGED <<now, cache_file, writable, usage_data, configVars, historyVars, sideVars, query,
                   used_provider, asked, outcome, start_data, last, status, ops,
                   approved, denied, flaky, attempt, attempts, searched, results,
                   pc, idx>>
\* An attempt of SearXNGProvider.search that does not return: the else branch
\* or the except branch, each with rotate_instance, then the next attempt or,
\* after max_retries attempts, `return []`.
SearxngAttemptFails(response) ==
    /\ pc = "search"
    /\ providers[idx] = "SearXNGProvider"
    /\ flaky
    /\ attempts' = Append(attempts, Request(response))
    /\ current_instance_idx' = rotate_instance(current_instance_idx)
    /\ instance_url' = PUBLIC_INSTANCES[current_instance_idx' + 1]
    /\ IF attempt + 1 >= max_retries
       THEN /\ attempt' = 0
            /\ searched' = Append(searched, [provider |-> providers[idx], n |-> 0])
            /\ results' = <<>>
            /\ pc' = LoopTo(idx + 1)
            /\ idx' = idx + 1
       ELSE /\ attempt' = attempt + 1
            /\ UNCHANGED <<searched, results, pc, idx>>
    /\ UNCHANGED <<now, cache_file, writable, usage_data, configVars, historyVars, sideVars, query,
                   used_provider, asked, outcome, start_data, last, status, ops,
                   approved, denied, flaky>>

\* The return statement of search.
Return ==
    /\ pc = "return"
    /\ outcome' = [query |-> query, provider |-> used_provider,
                   results |-> results,
                   usage_status |-> get_status(usage_data),
                   timestamp |-> now]
    /\ pc' = "done"
    /\ UNCHANGED <<now, cache_file, writable, usage_data, configVars, historyVars, searxVars, sideVars, idx, query,
                   results, used_provider, asked, searched, start_data, last, status,
                   ops, approved, denied>>

\* ------------------------------------------------------------------------
\* SmartSearchTool.run
\* ------------------------------------------------------------------------
\* The text run builds from what search returned: a header and one numbered
\* block of title, snippet and URL per listed result, or the "No results
\* found" line. The title, snippet and link of a result are those of the
\* backend entry of its rank.
run_ListAll(result) ==
    IF Len(result.results) > 0
    THEN [text |-> "Search results for", query |-> result.query,
          via |-> result.provider,
          items |-> [i \in 1..Len(result.results) |->
                        [number |-> i,
                         title |-> result.results[i].rank,
                         snippet |-> result.results[i].rank,
                         link |-> result.results[i].rank]]]
    ELSE [text |-> "No results found for", query |-> result.query,
          via |-> Null, items |-> <<>>]
run(result) ==
    IF Len(result.results) > 0
    THEN [text |-> "Search results for", query |-> result.query,
          via |-> result.provider,
          items |-> [i \in 1..Len(Take(result.results, RunTop)) |->
                        [number |-> i,
                         title |-> Take(result.results, RunTop)[i].rank,
                         snippet |-> Take(result.results, RunTop)[i].rank,
                         link |-> Take(result.results, RunTop)[i].rank]]]
    ELSE [text |-> "No results found for", query |-> result.query,
          via |-> Null, items |-> <<>>]

\* ------------------------------------------------------------------------
\* Specification: one tool, its tracker and a usage store that can be written
\* ------------------------------------------------------------------------
Next ==
    \/ \E service \in Services \cup {Unregistered} : CheckAndUpdate(service)
    \/ GetStatus
    \/ Tick
    \/ \E q \in Queries : StartSearch(q)
    \/ IsAvailable
    \/ \E n \in 0..MaxResults : ProviderSearch(n)
    \/ Return

Spec == Init /\ [][Next]_vars

\* ------------------------------------------------------------------------
\* Specification: calls of run, whose searches get up to MaxEntries entries
\* from a backend
\* ------------------------------------------------------------------------
NextRun ==
    \/ \E q \in Queries : StartSearch(q)
    \/ IsAvailable
    \/ \E n \in 0..MaxEntries : ProviderSearch(n)
    \/ Return

SpecRun == Init /\ [][NextRun]_vars

\* ------------------------------------------------------------------------
\* Specification: searches of one tool whose SearXNG instances can fail
\* ------------------------------------------------------------------------
InitSearx ==
    /\ cache_file = NoFile
    /\ serper_api_key \in BOOLEAN
    /\ brave_api_key = FALSE
    /\ focus = Null
    /\ flaky = TRUE
    /\ searxng_instance \in {Null, CustomInstance}
    /\ InitCommon

NextSearx ==
    \/ \E q \in Queries : StartSearch(q)
    \/ IsAvailable
    \/ \E n \in 0..MaxResults : ProviderSearch(n)
    \/ \E response \in FailedResponses : SearxngAttemptFails(response)
    \/ Return

SpecSearx == InitSearx /\ [][NextSearx]_vars

\* The request a search call has sent is answered or times out (every
\* requests call carries timeout=10), and the code between two requests runs
\* to the next one: a search call in progress takes its next step.
SearchRequest ==
    \/ \E n \in 0..MaxResults : ProviderSearch(n)
    \/ \E response \in FailedResponses : SearxngAttemptFails(response)

FairSearx ==
    /\ WF_vars(IsAvailable)
    /\ WF_vars(SearchRequest)
    /\ WF_vars(Return)

SpecSearxLive == InitSearx /\ [][NextSearx]_vars /\ FairSearx

\* ------------------------------------------------------------------------
\* Specification: the same, with a usage file that can become unwritable or
\* unreadable
\* ------------------------------------------------------------------------
\* The usage file stops, or starts again, to be writable (permissions, a
\* read-only or full file system).
StoreFault ==
    /\ writable' = ~writable
    /\ UNCHANGED <<now, cache_file, usage_data, searchVars, configVars, historyVars, searxVars, sideVars,
                   last, status, ops, approved, denied>>

\* The usage file is left holding no JSON document (a write cut short, a
\* file edited or replaced by hand).
GarbleFile ==
    /\ cache_file.exists
    /\ cache_file.valid
    /\ cache_file' = Garbled
    /\ UNCHANGED <<now, writable, usage_data, searchVars, configVars, historyVars, searxVars, sideVars,
                   last, status, ops, approved, denied>>

\* A new tool with its tracker is constructed between two operations.
Reconstruct ==
    /\ Idle
    /\ Restart

NextFaulty ==
    \/ Next
    \/ StoreFault
    \/ GarbleFile
    \/ Reconstruct

SpecFaulty == Init /\ [][NextFaulty]_vars

\* ------------------------------------------------------------------------
\* Specification: one provider taken from a fresh store to its quota, within
\* one period, with restarts of the tracker on the same usage file
\* ------------------------------------------------------------------------
InitQuota ==
    /\ cache_file = NoFile
    /\ serper_api_key = FALSE
    /\ brave_api_key = FALSE
    /\ focus \in Services
    /\ flaky = FALSE
    /\ searxng_instance = Null
    /\ InitCommon

\* check_and_update(service): the provider under test until it has been
\* denied MaxDenied times, the others MaxOther times each.
QuotaCheck(service) ==
    /\ IF service = focus
       THEN denied[service] < MaxDenied
       ELSE approved[service] + denied[service] < MaxOther
    /\ TrackerCall(service)
    /\ UNCHANGED <<now, writable, searchVars, configVars, historyVars, searxVars, sideVars, ops>>

QuotaStatus ==
    /\ last.op # "get_status"
    /\ status' = get_status(usage_data)
    /\ last' = [op |-> "get_status", service |-> Null, result |-> Null,
                before |-> NoRecord, at |-> now]
    /\ UNCHANGED <<now, cache_file, writable, usage_data, searchVars, configVars, historyVars, searxVars,
                   sideVars, ops, approved, denied>>

NextQuota ==
    \/ \E service \in Services : QuotaCheck(service)
    \/ QuotaStatus
    \/ Restart

SpecQuota == InitQuota /\ [][NextQuota]_vars

\* ------------------------------------------------------------------------
\* Specification: two tools, each with its own tracker, on one usage file
\* (CrewAISmartSearchTool._run constructs a SmartSearchTool per call)
\* ------------------------------------------------------------------------
InitShared ==
    /\ cache_file \in InitFiles \ {NoFile}
    /\ serper_api_key = FALSE
    /\ brave_api_key = FALSE
    /\ focus = Null
    /\ flaky = FALSE
    /\ searxng_instance = Null
    /\ InitCommon

\* check_and_update(service) on the first tool's tracker.
SharedCheck(service) ==
    /\ denied[service] < MaxDenied
    /\ TrackerCall(service)
    /\ UNCHANGED <<now, writable, searchVars, configVars, historyVars, searxVars, sideVars, ops>>

\* A second SmartSearchTool is constructed: its tracker loads the usage file.
PeerConstruct ==
    /\ peer_data' = load_usage(cache_file, now)
    /\ UNCHANGED <<now, cache_file, writable, usage_data, searchVars, configVars, historyVars, searxVars,
                   instance, base, peer_approved, last, status, ops, approved,
                   denied>>

\* check_and_update(service) on the second tool's tracker.
PeerCheck(service) ==
    /\ peer_data # NoFile.content
    /\ LET r == check_and_update(peer_data, service, now) IN
       /\ peer_data' = r.data
       /\ cache_file' = IF r.save THEN save_usage(r.data) ELSE cache_file
       /\ peer_approved' = [peer_approved EXCEPT ![service] =
                               @ + (IF r.ret = "True" THEN 1 ELSE 0)]
    /\ UNCHANGED <<now, writable, usage_data, searchVars, configVars, historyVars, searxVars, instance,
                   base, last, status, ops, approved, denied>>

NextShared ==
    \/ \E service \in Services : SharedCheck(service)
    \/ PeerConstruct
    \/ \E service \in Services : PeerCheck(service)

SpecShared == InitShared /\ [][NextShared]_vars

\* ------------------------------------------------------------------------
\* Specification: the report history of one process
\* ------------------------------------------------------------------------
NextHistory ==
    \/ \E report \in Reports : AddToHistory(report)
    \/ GetHistorySummary
    \/ \E report_id \in -2..(MaxReports + 1), can_write \in BOOLEAN :
          ExportById(report_id, can_write)

InitHistory ==
    /\ cache_file = NoFile
    /\ serper_api_key = FALSE
    /\ brave_api_key = FALSE
    /\ focus = Null
    /\ flaky = FALSE
    /\ searxng_instance = Null
    /\ InitCommon

SpecHistory == InitHistory /\ [][NextHistory]_vars

\* ------------------------------------------------------------------------
\* Specification: the report history with a second process on the same file
\* ------------------------------------------------------------------------
NextHistoryShared ==
    \/ \E report \in Reports : AddToHistory(report)
    \/ GetHistorySummary
    \/ PeerImport
    \/ \E report \in Reports : PeerAddToHistory(report)

SpecHistoryShared == InitHistory /\ [][NextHistoryShared]_vars

\* ------------------------------------------------------------------------
\* Properties of the tracker and of search
\* ------------------------------------------------------------------------
Last(seq) == seq[Len(seq)]

\* The quotas the claims state.
ClaimedQuota(s) ==
    CASE s = "serper" -> 2500
      [] s = "brave" -> 66
      [] s = "searxng" -> 100

\* C1: from a fresh record and within one period, a check_and_update call for
\* a service returns True when it is one of the first quota calls for that
\* service (2500 serper, 66 brave, 100 searxng) and False when it is a later one.
C1_QuotaCallsThenDenied ==
    \A s \in Services :
        /\ approved[s] <= ClaimedQuota(s)
        /\ (last.op = "check_and_update" /\ last.service = s)
           => /\ last.result \in {"True", "False"}
              /\ last.result = "True" <=> approved[s] + denied[s] <= ClaimedQuota(s)
              /\ last.result = "False" => approved[s] = ClaimedQuota(s)

\* The call after the 2500th for serper has been answered False.
C1_Witness ==
    /\ last.op = "check_and_update"
    /\ last.service = "serper"
    /\ last.result = "False"
    /\ approved["serper"] = 2500
    /\ denied["serper"] = 1

\* C2: a check_and_update call that finds the stored period key of its service
\* different from the current one resets the record before the quota check:
\* it returns True and leaves count = 1 under the current key, also when the
\* count had reached the quota in the previous period.
C2_RolloverBeforeCheck ==
    [][\A s \in Services :
          (TrackerCall(s) /\ usage_data[s].period # PeriodKey(s, now))
          => /\ last'.result = "True"
             /\ usage_data'[s] = [count |-> 1, period |-> PeriodKey(s, now)]]_vars

\* A call has just reset and approved a service that was exhausted in the
\* period before.
C2_Witness ==
    /\ last.op = "check_and_update"
    /\ last.result = "True"
    /\ last.service \in Services
    /\ last.before.count = Quota(last.service)
    /\ last.before.period # PeriodKey(last.service, last.at)
    /\ usage_data[last.service].count = 1

\* The entries n of the provider's search in this call, or -1 when it was not
\* searched.
SearchedN(provider) ==
    IF \E j \in 1..Len(searched) : searched[j].provider = provider
    THEN (CHOOSE e \in {searched[j] : j \in 1..Len(searched)} :
             e.provider = provider).n
    ELSE -1

\* C3: the provider a search returns is the first of the list that was
\* available and returned a result, its results are the outcome's, and no
\* provider after it is asked or searched; with provider 1 exhausted and
\* provider 2 returning results, the search ends at provider 2.
C3_FirstProviderWithResults ==
    (pc = "done" /\ outcome.provider # Null) =>
        LET k == Len(asked) IN
        /\ k \in 1..Len(providers)
        /\ \A i \in 1..k : asked[i].provider = providers[i]
        /\ outcome.provider = providers[k]
        /\ asked[k].available = "True"
        /\ SearchedN(providers[k]) > 0
        /\ outcome.results = ProviderResults(providers[k], SearchedN(providers[k]))
        /\ \A i \in 1..(k - 1) :
              \/ asked[i].available = "False" /\ SearchedN(providers[i]) = -1
              \/ asked[i].available = "True" /\ SearchedN(providers[i]) = 0
        /\ \A i \in (k + 1)..Len(providers) : SearchedN(providers[i]) = -1
        /\ Len(searched) <= k

\* Provider 1 was exhausted, provider 2 returned results, a provider 3 exists.
C3_Witness ==
    /\ pc = "done"
    /\ Len(providers) >= 3
    /\ Len(asked) = 2
    /\ asked[1].available = "False"
    /\ outcome.provider = providers[2]
    /\ Len(outcome.results) > 0

\* C5: a search in which every provider was unavailable or returned nothing
\* returns provider = None and results = [], and does not raise.
C5_AllFailReturnsEmpty ==
    /\ pc # "raised"
    /\ (pc \in {"return", "done"}
        /\ \A j \in 1..Len(searched) : searched[j].n = 0)
       => /\ Len(asked) = Len(providers)
          /\ used_provider = Null
          /\ results = <<>>
          /\ pc = "done" => outcome.provider = Null /\ outcome.results = <<>>

\* A search came back empty after an exhausted provider and empty answers.
C5_Witness ==
    /\ pc = "done"
    /\ outcome.provider = Null
    /\ outcome.results = <<>>
    /\ Len(searched) >= 2
    /\ \E i \in 1..Len(asked) : asked[i].available = "False"

\* C6: a check_and_update call that returns False changes neither the
\* tracker's records nor the usage file, and so does an is_available step of
\* search that finds its provider unavailable.
C6_DeniedChangesNothing ==
    [][/\ \A s \in Services \cup {Unregistered} :
             (TrackerCall(s) /\ last'.result = "False")
             => UNCHANGED <<usage_data, cache_file>>
       /\ (IsAvailable /\ Last(asked').available = "False")
             => UNCHANGED <<usage_data, cache_file>>]_vars

\* A search has skipped an exhausted provider.
C6_Witness ==
    /\ pc = "done"
    /\ \E i \in 1..Len(asked) :
          /\ asked[i].available = "False"
          /\ usage_data[ServiceOf(asked[i].provider)].count
                = Quota(ServiceOf(asked[i].provider))

\* C10: a get_status call leaves the records and the usage file as they are
\* and reports each record's stored count and period key, stale or not.
C10_GetStatusPureRead ==
    [][(last'.op = "get_status" /\ ops' # ops)
       => /\ UNCHANGED <<usage_data, cache_file>>
          /\ \A s \in Services :
                /\ status'[s].used = usage_data[s].count
                /\ status'[s].period = usage_data[s].period]_vars

\* get_status has reported, after a period change, a stale key and its count.
C10_Witness ==
    /\ last.op = "get_status"
    /\ \E s \in Services :
          /\ status[s].period # PeriodKey(s, last.at)
          /\ status[s].used > 0

\* C4: search never raises; whatever fails, it returns an outcome with query,
\* provider, results, usage_status and timestamp.
C4_SearchNeverRaises ==
    /\ pc # "raised"
    /\ pc = "done" =>
          /\ DOMAIN outcome = {"query", "provider", "results", "usage_status",
                               "timestamp"}
          /\ outcome.query = query

C8_RestartRoundTrip ==
    /\ [][instance' # instance => usage_data' = usage_data]_vars
    /\ [](\A s \in Services : approved[s] <= ClaimedQuota(s))

\* After a restart the provider under test is denied at its quota.
C8_Witness ==
    /\ instance >= 1
    /\ last.op = "check_and_update"
    /\ last.service = focus
    /\ last.result = "False"
    /\ approved[focus] = ClaimedQuota(focus)

\* C9: get_status reports, for each service, used = the number of calls
\* answered True since the fresh record and remaining = quota - used, and
\* remaining is max(0, quota - used) in every state.
C9_StatusCountsApprovals ==
    \A s \in Services :
        /\ get_status(usage_data)[s].remaining
              = Max(0, ClaimedQuota(s) - get_status(usage_data)[s].used)
        /\ last.op = "get_status"
           => /\ status[s].used = approved[s]
              /\ status[s].remaining = ClaimedQuota(s) - approved[s]

\* get_status has reported a provider part of the way to its quota.
C9_Witness ==
    /\ last.op = "get_status"
    /\ \E s \in Services :
          /\ status[s].used = 40
          /\ approved[s] = 40
          /\ status[s].remaining = ClaimedQuota(s) - 40

\* C11: the provider list is the part of [Serper, SearXNG, Brave,
\* GoogleScraper] that holds Serper exactly when a Serper key is configured,
\* Brave exactly when a Brave key is configured, and SearXNG and GoogleScraper
\* always, GoogleScraper last; without keys it is [SearXNG, GoogleScraper] and
\* a search still ends with an outcome, not an error.
C11_ProviderListFollowsKeys ==
    /\ providers =
          CASE serper_api_key /\ brave_api_key ->
                 <<"SerperProvider", "SearXNGProvider", "BraveProvider",
                   "GoogleScraperProvider">>
            [] serper_api_key /\ ~brave_api_key ->
                 <<"SerperProvider", "SearXNGProvider", "GoogleScraperProvider">>
            [] ~serper_api_key /\ brave_api_key ->
                 <<"SearXNGProvider", "BraveProvider", "GoogleScraperProvider">>
            [] ~serper_api_key /\ ~brave_api_key ->
                 <<"SearXNGProvider", "GoogleScraperProvider">>
    /\ (~serper_api_key /\ ~brave_api_key) =>
          /\ pc # "raised"
          /\ \A i \in 1..Len(asked) :
                asked[i].provider = <<"SearXNGProvider", "GoogleScraperProvider">>[i]
          /\ pc = "done" =>
                /\ outcome.query = query
                /\ outcome.provider \in {Null, "SearXNGProvider", "GoogleScraperProvider"}
                /\ outcome.provider = Null <=> outcome.results = <<>>

\* Without keys a search went through SearXNG to the scraper and returned the
\* scraper's results.
C11_Witness ==
    /\ ~serper_api_key
    /\ ~brave_api_key
    /\ pc = "done"
    /\ Len(asked) = 2
    /\ outcome.provider = "GoogleScraperProvider"
    /\ Len(outcome.results) > 0

\* C12: when a search ends at provider i, the first to return results, each
\* quota-bound provider up to i that had budget has a count one above the count
\* it had when the search was called, the providers after i have the counts
\* they had; with Serper configured, fresh and returning results, Serper is the
\* only provider invoked, its count goes from 0 to 1 and it is the provider
\* of the outcome.
C12_CountsPlusOneUpToWinner ==
    (pc = "done" /\ outcome.provider # Null) =>
        LET k == Len(asked) IN
        /\ \A i \in 1..k :
              (UsesTracker(providers[i]) /\ asked[i].available = "True")
              => usage_data[ServiceOf(providers[i])].count
                    = start_data[ServiceOf(providers[i])].count + 1
        /\ \A i \in (k + 1)..Len(providers) :
              UsesTracker(providers[i])
              => usage_data[ServiceOf(providers[i])]
                    = start_data[ServiceOf(providers[i])]
        /\ (serper_api_key /\ start_data["serper"].count = 0
            /\ SearchedN("SerperProvider") > 0)
           => /\ searched = <<[provider |-> "SerperProvider",
                               n |-> SearchedN("SerperProvider")]>>
              /\ usage_data["serper"].count = 1
              /\ outcome.provider = "SerperProvider"

\* The count a record holds for the period of a later record of the service:
\* its count, or 0 when the period key has changed since.
CountInPeriodOf(later, earlier) ==
    IF later.period = earlier.period THEN earlier.count ELSE 0

\* C12 as amended: the count of each quota-bound provider up to i that had
\* budget is one above the count it had in the current period (0 when its
\* stored period key was stale, the call having reset it); a provider up to i
\* without budget and the providers after i keep their records.
C12_PeriodCountsPlusOneUpToWinner ==
    (pc = "done" /\ outcome.provider # Null) =>
        LET k == Len(asked) IN
        /\ \A i \in 1..k :
              UsesTracker(providers[i]) =>
                 LET s == ServiceOf(providers[i]) IN
                 IF asked[i].available = "True"
                 THEN usage_data[s].count
                         = CountInPeriodOf(usage_data[s], start_data[s]) + 1
                 ELSE usage_data[s] = start_data[s]
        /\ \A i \in (k + 1)..Len(providers) :
              UsesTracker(providers[i])
              => usage_data[ServiceOf(providers[i])]
                    = start_data[ServiceOf(providers[i])]
        /\ (serper_api_key /\ start_data["serper"].count = 0
            /\ SearchedN("SerperProvider") > 0)
           => /\ searched = <<[provider |-> "SerperProvider",
                               n |-> SearchedN("SerperProvider")]>>
              /\ usage_data["serper"].count = 1
              /\ outcome.provider = "SerperProvider"

\* A search ended at the second of three providers: the first was charged
\* and returned nothing, the second was charged after a reset of its
\* stale record, the third was left alone.
C12_Witness ==
    /\ pc = "done"
    /\ Len(providers) >= 3
    /\ Len(asked) = 2
    /\ outcome.provider = providers[2]
    /\ asked[1].available = "True"
    /\ UsesTracker(providers[1]) /\ UsesTracker(providers[2])
    /\ usage_data[ServiceOf(providers[1])].count
          = start_data[ServiceOf(providers[1])].count + 1
    /\ start_data[ServiceOf(providers[2])].period
          # usage_data[ServiceOf(providers[2])].period
    /\ usage_data[ServiceOf(providers[2])].count = 1

\* The position of a provider in self.providers.
PositionOf(provider) == CHOOSE i \in 1..Len(providers) : providers[i] = provider

\* C13: a quota-bound provider that was available and returned no result
\* keeps the unit it was charged: its count stays one above the count it had
\* in the period, in memory and in the usage file, and the search goes on to
\* the next provider.
C13_EmptyAnswerKeepsCharge ==
    \A j \in 1..Len(searched) :
        (searched[j].n = 0 /\ UsesTracker(searched[j].provider)) =>
            LET s == ServiceOf(searched[j].provider)
                i == PositionOf(searched[j].provider) IN
            /\ asked[i].available = "True"
            /\ usage_data[s].count
                  = CountInPeriodOf(usage_data[s], start_data[s]) + 1
            /\ cache_file.exists /\ cache_file.content[s] = usage_data[s]
            /\ i < Len(providers)
            /\ \/ pc = "is_available" /\ idx = i + 1
               \/ Len(asked) > i /\ asked[i + 1].provider = providers[i + 1]

\* A search is over in which the first provider was charged for an empty
\* answer and the second one answered.
C13_Witness ==
    /\ pc = "done"
    /\ Len(searched) = 2
    /\ searched[1].n = 0
    /\ UsesTracker(searched[1].provider)
    /\ searched[2].n > 0
    /\ start_data[ServiceOf(searched[1].provider)].count + 1
          = usage_data[ServiceOf(searched[1].provider)].count
    /\ outcome.provider = searched[2].provider

\* C14: constructing a tracker on a usage file that exists and cannot be read
\* as JSON does not fail: the tracker starts with count 0 for every provider
\* in the current period.
C14_UnreadableStoreStartsAtZero ==
    [][(instance' # instance /\ load_usage_raises(cache_file))
       => /\ last'.result # "raised"
          /\ usage_data' = [s \in Services |->
                               [count |-> 0, period |-> PeriodKey(s, now)]]]_vars

\* C15: a check_and_update call that found the count below the quota and
\* whose write of the usage file fails still returns True and does not raise.
C15_WriteFailureStillApproves ==
    [][\A s \in Services :
          (TrackerCall(s) /\ ~writable
           /\ Rollover(usage_data, s, now)[s].count < Quota(s))
          => last'.result = "True"]_vars

\* C16: check_and_update with a name the tracker has no record for raises
\* instead of returning True, and changes no record.
C16_UnknownNameRaises ==
    [][(TrackerCall(Unregistered) /\ last'.service = Unregistered)
       => /\ last'.result \notin {"True", "False"}
          /\ UNCHANGED <<usage_data, cache_file>>]_vars

\* C17: is_available of GoogleScraperProvider always answers True and changes
\* no usage record; in every search the scraper is invoked exactly when every
\* provider before it was unavailable or returned no result.
C17_ScraperIsLastResort ==
    /\ [][(IsAvailable /\ providers[idx] = "GoogleScraperProvider")
          => /\ Last(asked') = [provider |-> "GoogleScraperProvider",
                                available |-> "True"]
             /\ pc' = "search"
             /\ UNCHANGED <<usage_data, cache_file>>]_vars
    /\ [](pc \in {"return", "done"} =>
            (SearchedN("GoogleScraperProvider") # -1
             <=> \A i \in 1..(Len(providers) - 1) :
                    /\ i <= Len(asked)
                    /\ \/ asked[i].available = "False"
                       \/ SearchedN(providers[i]) = 0))

\* The scraper answered a search after an exhausted provider and a provider
\* with an empty answer.
C17_Witness ==
    /\ pc = "done"
    /\ outcome.provider = "GoogleScraperProvider"
    /\ Len(asked) >= 3
    /\ asked[1].available = "False"
    /\ asked[2].available = "True"
    /\ SearchedN(providers[2]) = 0
    /\ SearchedN("GoogleScraperProvider") > 0

\* C18: run returns, for an outcome with n >= 1 results, a text that lists
\* min(n, 5) results, numbered from 1 in the provider's order, each with its
\* title, snippet and URL, and for an outcome without results the "No results
\* found" message.
C18_RunListsFirstFive ==
    pc = "done" =>
        LET n == Len(outcome.results)
            text == run(outcome) IN
        IF n >= 1
        THEN /\ text.text = "Search results for"
             /\ text.via = outcome.provider
             /\ Len(text.items) = (IF n <= 5 THEN n ELSE 5)
             /\ \A i \in 1..Len(text.items) :
                   text.items[i] = [number |-> i,
                                    title |-> outcome.results[i].rank,
                                    snippet |-> outcome.results[i].rank,
                                    link |-> outcome.results[i].rank]
             /\ \A i \in 1..Len(text.items) : outcome.results[i].rank = i
        ELSE /\ text.text = "No results found for"
             /\ text.items = <<>>
             /\ text.query = query

\* run has listed five of the six results a search returned.
C18_Witness ==
    /\ pc = "done"
    /\ Len(outcome.results) = 6
    /\ Len(run(outcome).items) = 5
    /\ run(outcome).items[5].number = 5

\* C19: export_report_to_markdown_by_id(report_id) returns status "success"
\* exactly when 0 <= report_id < len(fact_check_history) and the export can
\* be written; for every other id, any id on an empty history included, it
\* returns status "error" with a "not found" message; it does not raise and
\* leaves the history as it is.
C19_ExportByIdChecksRange ==
    /\ [](export_result # NoExport =>
            LET id == export_result.report_id
                in_range == 0 <= id /\ id < Len(fact_check_history) IN
            /\ export_result.status \in {"success", "error"}
            /\ export_result.status = "success"
                  <=> (in_range /\ export_result.can_write)
            /\ ~in_range => export_result.message = "not found")
    /\ [][(export_result' # export_result /\ export_result' # NoExport)
          => UNCHANGED <<fact_check_history, history_file>>]_vars

\* An export was refused for the id one past the last report.
C19_Witness ==
    /\ export_result.status = "error"
    /\ export_result.message = "not found"
    /\ export_result.report_id = Len(fact_check_history)
    /\ Len(fact_check_history) >= 1

C21_ConcurrentAddsKeepAll ==
    /\ Len(load_history(history_file)) >= Len(added) + peer_history.added
    /\ Len(fact_check_history) >= Len(added)
    /\ Len(peer_history.fact_check_history) >= peer_history.added

\* C22: within one search call the providers are visited in list order, each
\* at most once (one is_available call, at most one search call), and the
\* call ends at the first provider that returns results or after the last
\* provider; the list is not traversed a second time.
C22_ProvidersInOrderOnce ==
    /\ Len(asked) <= Len(providers)
    /\ \A i \in 1..Len(asked) : asked[i].provider = providers[i]
    /\ \A j \in 1..Len(searched) :
          /\ PositionOf(searched[j].provider) <= Len(asked)
          /\ asked[PositionOf(searched[j].provider)].available = "True"
          /\ \A k \in (j + 1)..Len(searched) :
                PositionOf(searched[j].provider) < PositionOf(searched[k].provider)
    /\ pc = "is_available" => idx = Len(asked) + 1 /\ idx <= Len(providers)
    /\ pc = "search" => idx = Len(asked)
    /\ pc \in {"return", "done"} =>
          \/ /\ used_provider = providers[Len(asked)]
             /\ Last(searched).provider = used_provider
             /\ Last(searched).n > 0
             /\ \A j \in 1..(Len(searched) - 1) : searched[j].n = 0
          \/ /\ used_provider = Null
             /\ Len(asked) = Len(providers)
             /\ \A j \in 1..Len(searched) : searched[j].n = 0

\* A search went through the four providers, found one exhausted and got no
\* result from the others.
C22_Witness ==
    /\ pc = "done"
    /\ Len(providers) = 4
    /\ Len(asked) = 4
    /\ Len(searched) = 3
    /\ outcome.provider = Null
    /\ \E i \in 1..3 : asked[i].available = "False"

\* What C23 and its amendment share: at most 3 requests per call; after each
\* request in `failed` the provider has moved to the next instance of
\* PUBLIC_INSTANCES (index + 1 modulo 5) before the next request; a request
\* in `answered` is the last one and the call has returned; after 3 failed
\* requests the call has returned the empty list.
SearxngRetries(failed, answered) ==
    /\ Len(attempts) <= 3
    /\ \A j \in 1..Len(attempts) :
          /\ attempts[j].response \in failed =>
                LET next == (attempts[j].idx + 1) % 5 IN
                IF j < Len(attempts)
                THEN /\ attempts[j + 1].idx = next
                     /\ attempts[j + 1].url = PUBLIC_INSTANCES[next + 1]
                ELSE /\ current_instance_idx = next
                     /\ instance_url = PUBLIC_INSTANCES[next + 1]
          /\ attempts[j].response \in answered =>
                /\ j = Len(attempts)
                /\ SearchedN("SearXNGProvider") >= 0
    /\ (Len(attempts) = 3 /\ \A j \in 1..3 : attempts[j].response \in failed)
          => SearchedN("SearXNGProvider") = 0
    /\ (pc = "search" /\ providers[idx] = "SearXNGProvider")
          => /\ attempt = Len(attempts)
             /\ attempt < 3

\* C23: SearXNGProvider.search makes at most 3 HTTP attempts per call, rotates
\* to the next instance after each attempt that ends in a non-200 response or
\* an exception, returns at the first 200 response without further attempts,
\* and returns an empty list after 3 failed attempts.
C23_ReturnsAtFirst200 ==
    SearxngRetries({"non200", "exception"}, {"200", "200_unparsable"})

\* C23 as amended: the attempt that returns is the first 200 response whose
\* body parses; a 200 response whose body response.json() cannot parse ends
\* in the except branch like a transport error: the provider rotates and, if
\* attempts are left, tries the next instance.
C23_ReturnsAtFirstParsed200 ==
    SearxngRetries({"non200", "exception", "200_unparsable"}, {"200"})

\* A SearXNG search gave up after three failed requests to three instances.
C23_Witness ==
    /\ Len(attempts) = 3
    /\ attempts[1].response = "non200"
    /\ attempts[2].response = "exception"
    /\ attempts[3].response = "non200"
    /\ attempts[3].idx = 2
    /\ current_instance_idx = 3
    /\ SearchedN("SearXNGProvider") = 0
    /\ pc = "done"

\* C24: after every check_and_update call that returns True the usage file
\* holds the tracker's whole in-memory record set; for one tracker whose
\* writes succeed, file and memory are equal after every completed call.
C24_StoreEqualsMemory ==
    /\ [][\A s \in Services \cup {Unregistered} :
             (TrackerCall(s) /\ last'.result = "True")
             => /\ cache_file'.exists
                /\ cache_file'.content = usage_data'
                /\ DOMAIN cache_file'.content = {"serper", "brave", "searxng"}]_vars
    /\ [](last.op = "check_and_update"
            => /\ last.result \in {"True", "False"}
               /\ cache_file.exists
               /\ cache_file.content = usage_data)

\* A call was answered True after a period change, and the file holds the
\* reset record of its service next to the untouched records of the others.
C24_Witness ==
    /\ last.op = "check_and_update"
    /\ last.result = "True"
    /\ last.service \in Services
    /\ last.before.period # PeriodKey(last.service, last.at)
    /\ cache_file.content = usage_data
    /\ cache_file.content[last.service].count = 1
    /\ \E o \in Services \ {last.service} : cache_file.content[o].count > 1

\* C25: for one tracker, whatever check_and_update calls, get_status calls
\* and period changes happen, every provider's count stays within 0..quota,
\* and a count does not decrease while the stored period key of its record
\* is the same. (The usage files of the initial states are those a run from
\* the zeroed store leaves behind.)
C25_CountsWithinQuotaMonotone ==
    /\ [](\A s \in Services :
             0 <= usage_data[s].count /\ usage_data[s].count <= ClaimedQuota(s))
    /\ [][\A s \in Services :
             usage_data'[s].period = usage_data[s].period
             => usage_data'[s].count >= usage_data[s].count]_vars

\* After a period change one provider was reset and charged, and another,
\* still in its period, was denied at its quota.
C25_Witness ==
    /\ last.op = "check_and_update"
    /\ last.result = "False"
    /\ last.service \in Services
    /\ last.at >= 1
    /\ usage_data[last.service].count = ClaimedQuota(last.service)
    /\ \E o \in Services :
          /\ usage_data[o].count = 1
          /\ usage_data[o].period = PeriodKey(o, now)
          /\ base[o] = ClaimedQuota(o)

\* C26: check_and_update(p) changes only the record of p: the count and the
\* period key of every other provider are after the call what they were
\* before it, also when their stored period keys are stale.
C26_OnlyOwnRecordChanges ==
    [][\A s \in Services \cup {Unregistered} :
          TrackerCall(s)
          => \A o \in Services \ {s} : usage_data'[o] = usage_data[o]]_vars

\* A call has rolled its provider over while another provider's record is
\* still under the key of the period before.
C26_Witness ==
    /\ last.op = "check_and_update"
    /\ last.service \in Services
    /\ last.before.period # PeriodKey(last.service, last.at)
    /\ usage_data[last.service] = [count |-> 1, period |-> PeriodKey(last.service, now)]
    /\ \E o \in Services \ {last.service} :
          /\ usage_data[o].period # PeriodKey(o, now)
          /\ usage_data[o].count = ClaimedQuota(o)

\* C27: in every outcome the provider is null exactly when the result list
\* is empty, and when it is not null every result carries the source of that
\* one provider and the results stand in the order the provider returned
\* them.
C27_ProviderNullIffNoResults ==
    pc = "done" =>
        /\ outcome.provider = Null <=> outcome.results = <<>>
        /\ outcome.provider # Null =>
              /\ outcome.provider \in {providers[k] : k \in 1..Len(providers)}
              /\ \A i \in 1..Len(outcome.results) :
                    /\ outcome.results[i].source = ServiceOf(outcome.provider)
                    /\ outcome.results[i].rank = i

\* An outcome of two results of a provider that was not the first one asked.
C27_Witness ==
    /\ pc = "done"
    /\ Len(searched) >= 2
    /\ searched[1].n = 0
    /\ outcome.provider = searched[Len(searched)].provider
    /\ Len(outcome.results) = 2
    /\ outcome.results[2] = [source |-> ServiceOf(outcome.provider), rank |-> 2]

\* C28: with two trackers on one usage file, whatever the order of their
\* check_and_update calls within one period, no save replaces the persisted
\* count of a provider by a smaller one.
C28_PersistedCountNeverDecreases ==
    [][\A s \in Services :
          cache_file'.content[s].period = cache_file.content[s].period
          => cache_file'.content[s].count >= cache_file.content[s].count]_vars

\* C28 as amended: every save replaces the file by the whole record set of
\* the tracker that saves, and within the period the counts of that tracker's
\* own record set never decrease; against the counts another tracker
\* persisted the file is not protected.
C28_SaveWritesOwnCounts ==
    [][cache_file' # cache_file =>
          \/ /\ cache_file'.content = usage_data'
             /\ usage_data' # usage_data
             /\ peer_data' = peer_data
             /\ \A s \in Services :
                   usage_data'[s].period = usage_data[s].period
                   => usage_data'[s].count >= usage_data[s].count
          \/ /\ cache_file'.content = peer_data'
             /\ peer_data' # peer_data
             /\ usage_data' = usage_data
             /\ \A s \in Services :
                   peer_data'[s].period = peer_data[s].period
                   => peer_data'[s].count >= peer_data[s].count]_vars

\* The first tracker has counted and saved one call of a provider, and a
\* later save of the second tracker, which counted a call of another
\* provider, has put the smaller count it had loaded back into the file.
C28_Witness ==
    \E s \in Services :
        /\ approved[s] = 1
        /\ usage_data[s].count = base[s] + 1
        /\ cache_file.content = peer_data
        /\ cache_file.content[s].period = usage_data[s].period
        /\ cache_file.content[s].count = base[s]
        /\ \E o \in Services \ {s} : peer_approved[o] >= 1

\* The requests of the SearXNG search in progress, or of the last one, that
\* ended in a rotation.
FailedAttempts ==
    Cardinality({j \in 1..Len(attempts) : attempts[j].response \in FailedResponses})

\* C29: current_instance_idx of the SearXNG provider is always an index of
\* PUBLIC_INSTANCES; from the first rotation on, instance_url is the entry of
\* PUBLIC_INSTANCES at that index; a search with k failed attempts leaves the
\* index k further, modulo the length of the list, than it found it; and the
\* next search of the same provider starts at the index the last one left.
C29_RotationIndex ==
    /\ [](/\ current_instance_idx \in 0..(Len(PUBLIC_INSTANCES) - 1)
          /\ instance_url # PUBLIC_INSTANCES[current_instance_idx + 1]
                => /\ instance_url = searxng_instance
                   /\ current_instance_idx = 0
                   /\ FailedAttempts = 0
          /\ attempts # <<>>
                => current_instance_idx
                     = (attempts[1].idx + FailedAttempts) % Len(PUBLIC_INSTANCES))
    /\ [][/\ instance_url = PUBLIC_INSTANCES[current_instance_idx + 1]
                => instance_url' = PUBLIC_INSTANCES[current_instance_idx' + 1]
          /\ current_instance_idx' # current_instance_idx
                => /\ instance_url' = PUBLIC_INSTANCES[current_instance_idx' + 1]
                   /\ Len(attempts') = Len(attempts) + 1
                   /\ attempts'[Len(attempts')].response \in FailedResponses
          /\ (attempts = <<>> /\ attempts' # <<>>)
                => /\ attempts'[1].idx = current_instance_idx
                   /\ attempts'[1].url = instance_url]_vars

\* A tool configured with an instance of its own: its first search failed
\* three times, its second search started at the fourth instance of the list
\* and failed three times more, past the end of the list.
C29_Witness ==
    /\ searxng_instance = CustomInstance
    /\ Len(attempts) = 3
    /\ attempts[1].idx = 3
    /\ attempts[1].url = PUBLIC_INSTANCES[4]
    /\ FailedAttempts = 3
    /\ current_instance_idx = 1
    /\ instance_url = PUBLIC_INSTANCES[2]

\* No provider stands twice in a list of calls.
EachOnce(calls) ==
    \A i, j \in 1..Len(calls) : calls[i].provider = calls[j].provider => i = j

\* C30: every search call terminates: within one call is_available is called
\* at most once per provider, SearXNG is sent at most 3 requests and every
\* other provider at most one, and the call then returns its outcome.
C30_SearchTerminates ==
    /\ [](/\ EachOnce(asked)
          /\ EachOnce(searched)
          /\ Len(asked) <= Len(providers)
          /\ Len(attempts) <= max_retries
          /\ attempts # <<>> =>
                \/ pc = "search" /\ providers[idx] = "SearXNGProvider"
                \/ \E k \in 1..Len(searched) : searched[k].provider = "SearXNGProvider"
          /\ pc = "done" => outcome # NoOutcome /\ outcome.query = query)
    /\ (pc \in {"is_available", "search", "return"}) ~> (pc = "done")

\* A call that went through the whole list has returned: Serper answered
\* nothing, three SearXNG instances failed, the scraper found the results.
C30_Witness ==
    /\ pc = "done"
    /\ Len(asked) = 3
    /\ Len(searched) = 3
    /\ searched[1] = [provider |-> "SerperProvider", n |-> 0]
    /\ Len(attempts) = max_retries
    /\ FailedAttempts = max_retries
    /\ outcome.provider = "GoogleScraperProvider"
    /\ Len(outcome.results) = 1

====
